---------------------------- MODULE Spec2Model ----------------------------
(***************************************************************************)
(* A model of the two image-conversion scripts of the repository:          *)
(*                                                                         *)
(*   src/src/assets/projects/retargeting/compress_gif.py   (resize_gif)    *)
(*   src/public/favicon/favicon_to_png.py                  (main and the   *)
(*        functions it calls)                                              *)
(*                                                                         *)
(* Each script is a sequential program.  Its position is a pc variable,    *)
(* its locals are variables, and its inputs (the files it reads and the    *)
(* arguments it is called with) are drawn in the initial state.            *)
(*                                                                         *)
(* An optional value (a dictionary key that may be missing, Python's None) *)
(* is a set with no element or one element.                                *)
(***************************************************************************)
EXTENDS Integers, Sequences, FiniteSets, TLC

VARIABLES
    \* ---- compress_gif.py: resize_gif
    gif,            \* the input file: exists, identifiable, size, info, frames
    box,            \* <<max_width, max_height>>
    g_pc,           \* "start", "open", "loop", "saved", "raised"
    base_info,      \* base_duration, base_loop, base_disposal, transparency
    frames,         \* the list frames
    durations,      \* the list durations
    position,       \* frames of the input consumed by the iterator
    g_raised,       \* the exception raised to the caller, "" when none
    g_output,       \* the output file: {} until frames[0].save writes it
    \* ---- favicon_to_png.py: main
    svg,            \* the input: exists, readable, and the document
    f_pc,           \* "start", "read", "dims", "render", "done" (main returned),
                    \* "escaped" (an exception left main)
    dims,           \* {} or {<<svg_width, svg_height>>}
    bounds,         \* {} or the box get_svg_content_bounds returned last
    idx,            \* index into target_sizes of the size rendered next
    modified,       \* {} or the viewBox (in half units), width and height that
                    \* svg_to_png set on the document last
    files,          \* the PNG files written, in the order of writing
    printed,        \* what main printed, in order
    f_raised        \* "" or the exception raised last

gvars == <<gif, box, g_pc, base_info, frames, durations, position, g_raised, g_output>>
fvars == <<svg, f_pc, dims, bounds, idx, modified, files, printed, f_raised>>
vars == <<gvars, fvars>>

\* ------------------------------------------------------------------------
\* Bounds of the model
\* ------------------------------------------------------------------------
MaxFrames == 2      \* frames of an input GIF
MaxDim == 5         \* width and height of an input GIF, and of the maximum box
MaxShapes == 2      \* elements of an input SVG document

\* The element of a one-element set.
The(s) == CHOOSE x \in s : TRUE

Max2(a, b) == IF a >= b THEN a ELSE b

\* Sequences over S of length 0..n.
SeqsUpTo(S, n) == UNION {[1..k -> S] : k \in 0..n}

\* ========================================================================
\* compress_gif.py
\* ========================================================================

\* dict.get(key, default)
InfoGet(info, key, default) == IF info[key] = {} THEN default ELSE The(info[key])

DefaultDuration == 100
DefaultLoop == 0
DefaultDisposal == 2

\* Python's round() of the rational num/den (den > 0): to the nearest
\* integer, a tie to the even one.  The code rounds the float
\* (a / b * c); for the sizes of this model (up to 13) the float result is
\* the rounding of the exact quotient.
Round(num, den) ==
    LET q == num \div den
        r == num % den
    IN  IF 2 * r < den THEN q
        ELSE IF 2 * r > den THEN q + 1
        ELSE IF q % 2 = 0 THEN q ELSE q + 1

\* ImageOps.cover: the scaling with the two branches exchanged, which fills
\* the box instead of fitting into it.
Cover(w, h, mw, mh) ==
    IF w * mh = mw * h THEN <<mw, mh>>
    ELSE IF w * mh > mw * h THEN <<Round(w * mh, h), mh>>
    ELSE <<mw, Round(h * mw, w)>>

\* lines 52-56: ImageOps.contain(image, size), the size the image is resized to.
\*   im_ratio = image.width / image.height; dest_ratio = size[0] / size[1]
\*   if im_ratio != dest_ratio:
\*       if im_ratio > dest_ratio: new_height = round(h / w * size[0])
\*       else:                     new_width  = round(w / h * size[1])
Contain(w, h, mw, mh) ==
    IF w * mh = mw * h THEN <<mw, mh>>
    ELSE IF w * mh > mw * h THEN <<mw, Round(h * mw, w)>>
    ELSE <<Round(w * mh, h), mh>>

\* Image.resize refuses a size with a zero side ("height and width must be > 0").
ResizeRaises(size) == size[1] < 1 \/ size[2] < 1

\* ---- the inputs
OptDurations == {{}, {20}, {70}}
GifInfos == [duration : {{}, {50}}, loop : {{}, {3}}, disposal : {{}},
             transparency : {{}, {0}}]
GifFrames == SeqsUpTo([duration : OptDurations], MaxFrames)
Gifs ==
    [exists : {TRUE}, identifiable : {TRUE}, size : (1..MaxDim) \X (1..MaxDim),
     info : GifInfos, frames : GifFrames]
    \cup [exists : BOOLEAN, identifiable : BOOLEAN, size : {<<1, 1>>},
          info : {[duration |-> {}, loop |-> {}, disposal |-> {}, transparency |-> {}]},
          frames : {<<>>}]
Boxes == (1..MaxDim) \X (1..MaxDim)

NoBaseInfo == [duration |-> 0, loop |-> 0, disposal |-> 0, transparency |-> {}]

GifInit ==
    /\ gif \in Gifs
    /\ box \in Boxes
    /\ g_pc = "start"
    /\ base_info = NoBaseInfo
    /\ frames = <<>>
    /\ durations = <<>>
    /\ position = 0
    /\ g_raised = ""
    /\ g_output = {}

\* lines 32-36: the existence check.
GifStart ==
    /\ g_pc = "start"
    /\ IF ~ gif.exists
       THEN /\ g_pc' = "raised"
            /\ g_raised' = "FileNotFoundError"
       ELSE /\ g_pc' = "open"
            /\ UNCHANGED g_raised
    /\ UNCHANGED <<gif, box, base_info, frames, durations, position, g_output, fvars>>

\* lines 38-45: Image.open and the reading of the base metadata.
GifOpen ==
    /\ g_pc = "open"
    /\ IF ~ gif.identifiable
       THEN /\ g_pc' = "raised"
            /\ g_raised' = "UnidentifiedImageError"
            /\ UNCHANGED <<base_info, frames, durations>>
       ELSE /\ g_pc' = "loop"
            /\ base_info' = [duration |-> InfoGet(gif.info, "duration", DefaultDuration),
                             loop |-> InfoGet(gif.info, "loop", DefaultLoop),
                             disposal |-> InfoGet(gif.info, "disposal", DefaultDisposal),
                             transparency |-> gif.info.transparency]
            /\ frames' = <<>>
            /\ durations' = <<>>
            /\ UNCHANGED g_raised
    /\ UNCHANGED <<gif, box, position, g_output, fvars>>

\* line 48, with the base duration used for every frame.
BaseDurationOnly(frame, base) == base

\* line 48: frame.info.get("duration", base_duration)
FrameDuration(frame, base) == InfoGet(frame, "duration", base)

\* lines 47-59: one iteration of the loop over ImageSequence.Iterator.
GifFrame ==
    /\ g_pc = "loop"
    /\ position < Len(gif.frames)
    /\ LET i == position + 1
           frame == gif.frames[i]
           size == Contain(gif.size[1], gif.size[2], box[1], box[2])
       IN  /\ position' = i
           /\ durations' = Append(durations, FrameDuration(frame, base_info.duration))
           /\ IF ResizeRaises(size)
              THEN /\ g_pc' = "raised"
                   /\ g_raised' = "ValueError: height and width must be > 0"
                   /\ UNCHANGED frames
              ELSE /\ frames' = Append(frames, [src |-> i, width |-> size[1],
                                                height |-> size[2]])
                   /\ UNCHANGED <<g_pc, g_raised>>
    /\ UNCHANGED <<gif, box, base_info, g_output, fvars>>

\* lines 61-62, with the check left out.
NoFramesCheck(fs) == FALSE

\* lines 61-62: the check for an empty frame list.
FramesEmpty(fs) == fs = <<>>

\* lines 64-76: frames[0].save(output, save_all, append_images=frames[1:], ...)
SaveAll(fs) ==
    [base |-> fs[1], append_images |-> Tail(fs), loop |-> base_info.loop,
     duration |-> durations, disposal |-> base_info.disposal,
     transparency |-> base_info.transparency]

\* lines 61-76: after the loop.  frames[0] of an empty list would raise
\* IndexError.
GifFinish ==
    /\ g_pc = "loop"
    /\ position = Len(gif.frames)
    /\ IF FramesEmpty(frames)
       THEN /\ g_pc' = "raised"
            /\ g_raised' = "ValueError: No frames were extracted"
            /\ UNCHANGED g_output
       ELSE IF frames = <<>>
       THEN /\ g_pc' = "raised"
            /\ g_raised' = "IndexError"
            /\ UNCHANGED g_output
       ELSE /\ g_pc' = "saved"
            /\ g_output' = {SaveAll(frames)}
            /\ UNCHANGED g_raised
    /\ UNCHANGED <<gif, box, base_info, frames, durations, position, fvars>>

GifNext == GifStart \/ GifOpen \/ GifFrame \/ GifFinish

\* ========================================================================
\* favicon_to_png.py
\* ========================================================================

\* ---- the document model
\* An element has a tag (its local name), numeric attributes (a record of
\* the attributes present), the set of its attributes whose text is not a
\* number, and, for path, polyline and polygon, the text of d or points as
\* a sequence of whitespace- or comma-separated tokens: a number or a word
\* of command letters.
Elem(tag, attrs, bad, d) == [tag |-> tag, attrs |-> attrs, bad |-> bad, d |-> d]
Num(v) == [num |-> TRUE, val |-> v, cmd |-> ""]
Cmd(c) == [num |-> FALSE, val |-> 0, cmd |-> c]

\* lines 36-50: the pairs "number separator number" of the text, found
\* left to right without overlap.
RECURSIVE PairsFrom(_, _)
PairsFrom(toks, i) ==
    IF i + 1 > Len(toks) THEN <<>>
    ELSE IF toks[i].num /\ toks[i + 1].num
         THEN <<<<toks[i].val, toks[i + 1].val>>>> \o PairsFrom(toks, i + 2)
         ELSE PairsFrom(toks, i + 1)

parse_path_data(path_data) == PairsFrom(path_data, 1)

\* elem.get(name, 0), before float() is applied
AttrGet(elem, name) == IF name \in DOMAIN elem.attrs THEN elem.attrs[name] ELSE 0

\* The attributes float() is applied to, per tag (lines 81-106).
FloatAttrs(elem) ==
    CASE elem.tag = "rect" -> {"x", "y", "width", "height"}
      [] elem.tag = "circle" -> {"cx", "cy", "r"}
      [] elem.tag = "ellipse" -> {"cx", "cy", "rx", "ry"}
      [] elem.tag = "line" -> {"x1", "y1", "x2", "y2"}
      [] OTHER -> {}

\* float() raises ValueError on one of the element's attributes.
FloatRaises(elem) == FloatAttrs(elem) \cap elem.bad # {}

\* lines 70-75: the points a path element contributes.
PathPoints(elem) ==
    IF elem.tag = "path" /\ elem.d # <<>> THEN parse_path_data(elem.d) ELSE <<>>

\* line 86, with the far corner left out.
RectNearCorner(x, y, width, height) == <<<<x, y>>>>

\* line 86
RectPoints(x, y, width, height) == <<<<x, y>>, <<x + width, y + height>>>>

\* line 92
CirclePoints(cx, cy, r) == <<<<cx - r, cy - r>>, <<cx + r, cy + r>>>>

\* lines 78-112: the points a basic shape contributes.
ShapePoints(elem) ==
    CASE elem.tag = "rect" ->
            RectPoints(AttrGet(elem, "x"), AttrGet(elem, "y"),
                       AttrGet(elem, "width"), AttrGet(elem, "height"))
      [] elem.tag = "circle" ->
            CirclePoints(AttrGet(elem, "cx"), AttrGet(elem, "cy"), AttrGet(elem, "r"))
      [] elem.tag = "ellipse" ->
            <<<<AttrGet(elem, "cx") - AttrGet(elem, "rx"),
                AttrGet(elem, "cy") - AttrGet(elem, "ry")>>,
              <<AttrGet(elem, "cx") + AttrGet(elem, "rx"),
                AttrGet(elem, "cy") + AttrGet(elem, "ry")>>>>
      [] elem.tag = "line" ->
            <<<<AttrGet(elem, "x1"), AttrGet(elem, "y1")>>,
              <<AttrGet(elem, "x2"), AttrGet(elem, "y2")>>>>
      [] elem.tag \in {"polyline", "polygon"} ->
            IF elem.d # <<>> THEN parse_path_data(elem.d) ELSE <<>>
      [] OTHER -> <<>>

RECURSIVE AllPathPoints(_, _)
AllPathPoints(elems, i) ==
    IF i > Len(elems) THEN <<>>
    ELSE PathPoints(elems[i]) \o AllPathPoints(elems, i + 1)

RECURSIVE AllShapePoints(_, _)
AllShapePoints(elems, i) ==
    IF i > Len(elems) THEN <<>>
    ELSE ShapePoints(elems[i]) \o AllShapePoints(elems, i + 1)

\* min() and max() of the coordinate k of a non-empty list of points
MinCoord(points, k) ==
    CHOOSE m \in {points[i][k] : i \in 1..Len(points)} :
        \A i \in 1..Len(points) : m <= points[i][k]

MaxCoord(points, k) ==
    CHOOSE m \in {points[i][k] : i \in 1..Len(points)} :
        \A i \in 1..Len(points) : m >= points[i][k]

Ok(box4) == [exc |-> "", box |-> box4]
Raise(exc) == [exc |-> exc, box |-> <<0, 0, 0, 0>>]

DefaultBox == 100

\* lines 114-121: the fallback when no point was found.  viewbox is {} when
\* the attribute is missing, else the numbers of its text; the unpacking
\* of map(float, viewbox.split()) needs exactly four.
ViewBoxFallback(viewbox) ==
    IF viewbox = {} \/ The(viewbox) = <<>> THEN Ok(<<0, 0, DefaultBox, DefaultBox>>)
    ELSE IF Len(The(viewbox)) # 4 THEN Raise("ValueError")
    ELSE Ok(<<0, 0, The(viewbox)[3], The(viewbox)[4]>>)

\* lines 53-130
get_svg_content_bounds(doc) ==
    IF ~ doc.wellformed THEN Raise("ParseError")
    ELSE IF \E i \in 1..Len(doc.elems) : FloatRaises(doc.elems[i]) THEN Raise("ValueError")
    ELSE LET all_points == AllPathPoints(doc.elems, 1) \o AllShapePoints(doc.elems, 1)
         IN  IF all_points = <<>> THEN ViewBoxFallback(doc.viewBox)
             ELSE Ok(<<MinCoord(all_points, 1), MinCoord(all_points, 2),
                       MaxCoord(all_points, 1), MaxCoord(all_points, 2)>>)

\* lines 144-159: (square_size, square_size) of a bounding box
get_svg_dimensions(b) ==
    LET content_width == b[3] - b[1]
        content_height == b[4] - b[2]
        square_size == Max2(content_width, content_height)
    IN  <<square_size, square_size>>

\* lines 162-180, rendering at the document's own size.
RenderAtNaturalSize(svg_width, svg_height, target_size) == <<svg_width, svg_height>>

\* lines 162-180
calculate_render_size(svg_width, svg_height, target_size) ==
    <<target_size, target_size>>

\* lines 198-220, with the window anchored at the content's corner.
ViewBoxAtCorner(b) ==
    LET square_size == Max2(b[3] - b[1], b[4] - b[2])
    IN  <<2 * b[1], 2 * b[2], 2 * square_size, 2 * square_size>>

\* lines 198-220: the viewBox svg_to_png sets, "new_min_x new_min_y
\* square_size square_size".  The code halves floats; the model keeps every
\* number of the viewBox in half units (twice its value), which is exact.
NewViewBox(b) ==
    LET min_x == b[1]
        min_y == b[2]
        content_width == b[3] - b[1]
        content_height == b[4] - b[2]
        square_size == Max2(content_width, content_height)
        center_x2 == 2 * min_x + content_width
        center_y2 == 2 * min_y + content_height
        new_min_x2 == center_x2 - square_size
        new_min_y2 == center_y2 - square_size
    IN  <<new_min_x2, new_min_y2, 2 * square_size, 2 * square_size>>

\* ---- the inputs
Rects == {Elem("rect", a, {}, <<>>) :
            a \in [x : {-2, 1}, y : {0, 3}, width : {0, 4}, height : {2}]}
Circles == {Elem("circle", a, {}, <<>>) : a \in [cx : {0, 50}, cy : {50}, r : {0, 40}]}
Ellipses == {Elem("ellipse", a, {}, <<>>) : a \in [cx : {1}, cy : {-1}, rx : {2}, ry : {0, 3}]}
Lines == {Elem("line", a, {}, <<>>) : a \in [x1 : {-3}, y1 : {2}, x2 : {0, 5}, y2 : {2}]}
\* Shapes with attributes left out (elem.get's default 0 applies).
Partial == {Elem("rect", [width |-> 6, height |-> 1], {}, <<>>),
            Elem("circle", [r |-> 3], {}, <<>>)}
\* A rect whose x is not a number.
BadShapes == {Elem("rect", [y |-> 0, width |-> 1, height |-> 1], {"x"}, <<>>)}
\* "M 0 0 L 6 -4", "M 1 2 3", and a polygon "1,1 4,1 4,5".
PointLists == {Elem("path", <<>>, {}, <<Cmd("M"), Num(0), Num(0), Cmd("L"), Num(6), Num(-4)>>),
               Elem("path", <<>>, {}, <<Cmd("M"), Num(1), Num(2), Num(3)>>),
               Elem("polygon", <<>>, {}, <<Num(1), Num(1), Num(4), Num(1), Num(4), Num(5)>>)}
\* Elements that yield no point: a group, a path without d, "H 7 V 2 Z".
NoPointElems == {Elem("g", <<>>, {}, <<>>),
                 Elem("path", <<>>, {}, <<>>),
                 Elem("path", <<>>, {}, <<Cmd("H"), Num(7), Cmd("V"), Num(2), Cmd("Z")>>)}
ElemPool == Rects \cup Circles \cup Ellipses \cup Lines \cup Partial \cup BadShapes
            \cup PointLists \cup NoPointElems

\* viewBox: missing, "", "0 0 24 24", "10 10 80 80", "0 0 0 0", "0 0 24".
ViewBoxes == {{}, {<<>>}, {<<0, 0, 24, 24>>}, {<<10, 10, 80, 80>>}, {<<0, 0, 0, 0>>},
              {<<0, 0, 24>>}}

Docs ==
    [wellformed : {TRUE}, viewBox : {{<<0, 0, 100, 100>>}},
     elems : SeqsUpTo(ElemPool, MaxShapes)]
    \cup [wellformed : {TRUE}, viewBox : ViewBoxes, elems : SeqsUpTo(NoPointElems, 1)]
    \cup [wellformed : {FALSE}, viewBox : {{}}, elems : {<<>>}]

Svgs ==
    [exists : {TRUE}, readable : {TRUE}, doc : Docs]
    \cup [exists : BOOLEAN, readable : BOOLEAN,
          doc : {[wellformed |-> TRUE, viewBox |-> {}, elems |-> <<>>]}]

\* line 251, with two sizes exchanged.
SizesOutOfOrder == <<32, 256, 128>>

\* line 251
target_sizes == <<32, 128, 256>>

Msg(text, size) == [text |-> text, size |-> size]

FavInit ==
    /\ svg \in Svgs
    /\ f_pc = "start"
    /\ dims = {}
    /\ bounds = {}
    /\ idx = 1
    /\ modified = {}
    /\ files = <<>>
    /\ printed = <<>>
    /\ f_raised = ""

\* line 290, catching XML parse errors only.
CatchesParseErrorOnly(exc) == exc = "ParseError"

\* line 290: except Exception.  Every exception of the model's steps is a
\* subclass of Exception.
Catches(exc) ==
    exc \in {"ParseError", "ValueError", "ZeroDivisionError", "RasterError", "OSError"}

\* lines 290-291: an exception raised inside the try block, after out was
\* printed.
Handler(exc, out) ==
    /\ f_raised' = exc
    /\ IF Catches(exc)
       THEN /\ printed' = Append(out, Msg("Error processing SVG", 0))
            /\ f_pc' = "done"
       ELSE /\ printed' = out
            /\ f_pc' = "escaped"

\* lines 247-256
FavStart ==
    /\ f_pc = "start"
    /\ IF ~ svg.exists
       THEN /\ printed' = Append(printed, Msg("not found", 0))
            /\ f_pc' = "done"
       ELSE /\ f_pc' = "read"
            /\ UNCHANGED printed
    /\ UNCHANGED <<svg, dims, bounds, idx, modified, files, f_raised, gvars>>

\* lines 259-260: outside the try block.
FavRead ==
    /\ f_pc = "read"
    /\ IF svg.readable
       THEN /\ f_pc' = "dims"
            /\ UNCHANGED f_raised
       ELSE /\ f_pc' = "escaped"
            /\ f_raised' = "OSError"
    /\ UNCHANGED <<svg, dims, bounds, idx, modified, files, printed, gvars>>

\* lines 263-265: get_svg_dimensions and the two prints after it; the
\* aspect ratio divides svg_width by svg_height.
FavDimensions ==
    /\ f_pc = "dims"
    /\ LET r == get_svg_content_bounds(svg.doc)
       IN  IF r.exc # ""
           THEN /\ Handler(r.exc, printed)
                /\ UNCHANGED <<dims, bounds>>
           ELSE LET d == get_svg_dimensions(r.box)
                    out == printed \o <<Msg("Content bounds", 0), Msg("Content size", 0),
                                        Msg("Square bounding box", 0),
                                        Msg("SVG dimensions", 0)>>
                IN  /\ bounds' = {r.box}
                    /\ dims' = {d}
                    /\ IF d[2] = 0
                       THEN Handler("ZeroDivisionError", out)
                       ELSE /\ printed' = Append(out, Msg("Aspect ratio", 0))
                            /\ f_pc' = "render"
                            /\ UNCHANGED f_raised
    /\ UNCHANGED <<svg, idx, modified, files, gvars>>

\* f.write of a file that open(output_path, "wb") created or truncated
Written(fs, name, width, height, complete) ==
    Append(fs, [name |-> name, width |-> width, height |-> height, complete |-> complete])

\* lines 268-283 and 183-238: one iteration of the loop over target_sizes.
\* outcome is what the libraries do: cairosvg.svg2png may raise, open may
\* raise, f.write may raise after open truncated the file.
FavRender(outcome) ==
    /\ f_pc = "render"
    /\ idx <= Len(target_sizes)
    /\ LET target_size == target_sizes[idx]
           render == calculate_render_size(The(dims)[1], The(dims)[2], target_size)
           out == Append(printed, Msg("Rendering", target_size))
           r == get_svg_content_bounds(svg.doc)
       IN  IF r.exc # ""
           THEN /\ Handler(r.exc, out)
                /\ UNCHANGED <<bounds, modified, files, idx>>
           ELSE /\ bounds' = {r.box}
                /\ modified' = {[viewBox |-> NewViewBox(r.box), width |-> render[1],
                                 height |-> render[2]]}
                /\ CASE outcome = "raster_error" ->
                            /\ Handler("RasterError", out)
                            /\ UNCHANGED <<files, idx>>
                     [] outcome = "open_error" ->
                            /\ Handler("OSError", out)
                            /\ UNCHANGED <<files, idx>>
                     [] outcome = "write_error" ->
                            /\ Handler("OSError", out)
                            /\ files' = Written(files, target_size, render[1], render[2], FALSE)
                            /\ UNCHANGED idx
                     [] OTHER ->
                            /\ files' = Written(files, target_size, render[1], render[2], TRUE)
                            /\ printed' = Append(out, Msg("Generated", target_size))
                            /\ idx' = idx + 1
                            /\ UNCHANGED <<f_pc, f_raised>>
    /\ UNCHANGED <<svg, dims, gvars>>

\* lines 285-288: after the loop.
FavFinish ==
    /\ f_pc = "render"
    /\ idx > Len(target_sizes)
    /\ printed' = printed \o <<Msg("All favicon sizes generated successfully", 0),
                               Msg("Generated files", 0)>>
                          \o [i \in 1..Len(target_sizes) |-> Msg("file", target_sizes[i])]
    /\ f_pc' = "done"
    /\ UNCHANGED <<svg, dims, bounds, idx, modified, files, f_raised, gvars>>

Outcomes == {"ok", "raster_error", "open_error", "write_error"}

FavNext == FavStart \/ FavRead \/ FavDimensions \/ (\E o \in Outcomes : FavRender(o)) \/ FavFinish

\* ========================================================================
\* The specifications
\* ========================================================================

\* The state of the favicon script while the GIF script is checked, and
\* the other way round.
FavIdle ==
    /\ svg = [exists |-> FALSE, readable |-> FALSE,
              doc |-> [wellformed |-> TRUE, viewBox |-> {}, elems |-> <<>>]]
    /\ f_pc = "idle"
    /\ dims = {}
    /\ bounds = {}
    /\ idx = 1
    /\ modified = {}
    /\ files = <<>>
    /\ printed = <<>>
    /\ f_raised = ""

GifIdle ==
    /\ gif = [exists |-> FALSE, identifiable |-> FALSE, size |-> <<1, 1>>,
              info |-> [duration |-> {}, loop |-> {}, disposal |-> {}, transparency |-> {}],
              frames |-> <<>>]
    /\ box = <<1, 1>>
    /\ g_pc = "idle"
    /\ base_info = NoBaseInfo
    /\ frames = <<>>
    /\ durations = <<>>
    /\ position = 0
    /\ g_raised = ""
    /\ g_output = {}

InitGif == GifInit /\ FavIdle

SpecGif == InitGif /\ [][GifNext]_vars

InitFavicon == FavInit /\ GifIdle

SpecFavicon == InitFavicon /\ [][FavNext]_vars

\* ========================================================================
\* The claims
\* ========================================================================

Range(seq) == {seq[i] : i \in 1..Len(seq)}

\* ---- C1
ParseOrRasterErrors == {"ParseError", "ValueError", "RasterError"}

\* C1: when get_svg_dimensions or svg_to_png (for any of the three sizes)
\* raises a parse or rasterization error, main catches it: the diagnostic
\* is the last thing printed, main returns and no exception leaves it, and
\* no PNG file of the size that failed is written.
C1_ErrorCaughtAndSizeNotWritten ==
    f_raised \in ParseOrRasterErrors =>
        /\ f_pc = "done"
        /\ printed # <<>>
        /\ printed[Len(printed)] = Msg("Error processing SVG", 0)
        /\ (dims = {} => files = <<>>)
        /\ \A i \in 1..Len(files) : files[i].name # <<32, 128, 256>>[idx]

\* The rasterization of the second size fails after the first was written.
C1_Witness ==
    /\ f_raised = "RasterError"
    /\ idx = 2
    /\ Len(files) = 1
    /\ f_pc = "done"

\* ---- C2
\* C2: a missing input raises FileNotFoundError; an input whose frame
\* iteration yields nothing raises the ValueError of the empty-frames check;
\* in both cases, and whenever resize_gif raises, no output file is written,
\* and a written output holds at least its base frame.
C2_DistinctFailuresNoOutput ==
    /\ (~ gif.exists /\ g_pc \in {"open", "loop", "saved", "raised"}) =>
            (g_pc = "raised" /\ g_raised = "FileNotFoundError")
    /\ (gif.exists /\ gif.identifiable /\ gif.frames = <<>> /\ g_pc \in {"saved", "raised"}) =>
            (g_pc = "raised" /\ g_raised = "ValueError: No frames were extracted")
    /\ g_raised = "FileNotFoundError" => ~ gif.exists
    /\ g_raised = "ValueError: No frames were extracted" => (gif.exists /\ frames = <<>>)
    /\ g_pc = "raised" => (g_output = {} /\ g_raised # "")
    /\ g_output # {} => (g_pc = "saved" /\ The(g_output).base.src = 1)

\* An existing, identifiable input without frames was rejected.
C2_Witness ==
    /\ gif.exists
    /\ gif.identifiable
    /\ gif.frames = <<>>
    /\ g_pc = "raised"
    /\ g_raised = "ValueError: No frames were extracted"

\* ---- C3
\* The frames of the output file, in order: the base frame and the appended ones.
SavedFrames(out) == <<out.base>> \o out.append_images

\* The duration the output must carry for input frame i.
ExpectedDuration(i) ==
    IF gif.frames[i].duration # {} THEN The(gif.frames[i].duration)
    ELSE IF gif.info.duration # {} THEN The(gif.info.duration)
    ELSE 100

C4_FrameFitsBox ==
    \A i \in 1..Len(frames) : frames[i].width <= box[1] /\ frames[i].height <= box[2]

\* A frame of another aspect ratio than the box was scaled to the box's
\* width and a smaller, rounded height.
C4_Witness ==
    /\ frames # <<>>
    /\ gif.size = <<3, 2>>
    /\ box = <<4, 4>>
    /\ frames[1].width = 4
    /\ frames[1].height = 3

\* ---- C5
\* C5: no resized frame is wider or taller than its source frame.
C5_NeverUpscales ==
    \A i \in 1..Len(frames) :
        frames[i].width <= gif.size[1] /\ frames[i].height <= gif.size[2]

\* ---- C6
\* The sizes whose rendering main announced, in order.
Renderings == SelectSeq(printed, LAMBDA m : m.text = "Rendering")

\* C6: every PNG written is favicon-{s}x{s}.png for a size s of 32, 128,
\* 256 and is s by s pixels, and the document it is rendered from has width
\* and height s, whatever the shape of the content box.
C6_OutputsSquare ==
    /\ \A i \in 1..Len(files) :
          /\ files[i].name \in {32, 128, 256}
          /\ files[i].width = files[i].name
          /\ files[i].height = files[i].name
    /\ modified # {} =>
          /\ Renderings # <<>>
          /\ The(modified).width = Renderings[Len(Renderings)].size
          /\ The(modified).height = The(modified).width

\* All three sizes were written for a content box that is not square.
C6_Witness ==
    /\ Len(files) = 3
    /\ bounds # {}
    /\ The(bounds)[3] - The(bounds)[1] # The(bounds)[4] - The(bounds)[2]

\* ---- C7
Min2(a, b) == IF a <= b THEN a ELSE b

\* The box of one rect or circle, from its attributes.
ShapeBox(e) ==
    IF e.tag = "rect"
    THEN LET x == AttrGet(e, "x")
             y == AttrGet(e, "y")
             w == AttrGet(e, "width")
             h == AttrGet(e, "height")
         IN  <<Min2(x, x + w), Min2(y, y + h), Max2(x, x + w), Max2(y, y + h)>>
    ELSE <<AttrGet(e, "cx") - AttrGet(e, "r"), AttrGet(e, "cy") - AttrGet(e, "r"),
           AttrGet(e, "cx") + AttrGet(e, "r"), AttrGet(e, "cy") + AttrGet(e, "r")>>

SetMin(S) == CHOOSE m \in S : \A x \in S : m <= x
SetMax(S) == CHOOSE m \in S : \A x \in S : m >= x

OnlyRectsAndCircles(doc) ==
    /\ doc.elems # <<>>
    /\ \A i \in 1..Len(doc.elems) : doc.elems[i].tag \in {"rect", "circle"}

\* C7: for a document of rects and circles only, the box returned is the
\* union of the shapes' boxes, a single circle's box is (cx-r, cy-r, cx+r,
\* cy+r), and the box contains every shape's box.
C7_BoundsAreUnionOfShapeBoxes ==
    (bounds # {} /\ OnlyRectsAndCircles(svg.doc)) =>
        LET es == svg.doc.elems
            boxes == {ShapeBox(es[i]) : i \in 1..Len(es)}
            b == The(bounds)
        IN  /\ b = <<SetMin({s[1] : s \in boxes}), SetMin({s[2] : s \in boxes}),
                     SetMax({s[3] : s \in boxes}), SetMax({s[4] : s \in boxes})>>
            /\ \A s \in boxes : b[1] <= s[1] /\ b[2] <= s[2] /\ s[3] <= b[3] /\ s[4] <= b[4]
            /\ (Len(es) = 1 /\ es[1].tag = "circle") =>
                    b = <<AttrGet(es[1], "cx") - AttrGet(es[1], "r"),
                          AttrGet(es[1], "cy") - AttrGet(es[1], "r"),
                          AttrGet(es[1], "cx") + AttrGet(es[1], "r"),
                          AttrGet(es[1], "cy") + AttrGet(es[1], "r")>>

\* The bounds of a rect and a circle that stick out of each other.
C7_Witness ==
    /\ bounds # {}
    /\ Len(svg.doc.elems) = 2
    /\ svg.doc.elems[1] = Elem("rect", [x |-> -2, y |-> 3, width |-> 4, height |-> 2], {}, <<>>)
    /\ svg.doc.elems[2] = Elem("circle", [cx |-> 50, cy |-> 50, r |-> 40], {}, <<>>)
    /\ The(bounds) = <<-2, 3, 90, 90>>

\* ---- C8
CircleExample == <<Elem("circle", [cx |-> 50, cy |-> 50, r |-> 40], {}, <<>>)>>

\* C8: the viewBox svg_to_png sets is the square of side max(content_width,
\* content_height) centred on the midpoint of the content box, so it
\* contains the content box; for the single circle (50, 50, 40) it spans
\* (10, 10) to (90, 90).  The viewBox is in half units.
C8_ViewBoxIsCentredSquare ==
    modified # {} =>
        LET v == The(modified).viewBox
            b == The(bounds)
            side == Max2(b[3] - b[1], b[4] - b[2])
        IN  /\ v[3] = 2 * side
            /\ v[4] = 2 * side
            /\ v[1] + side = b[1] + b[3]
            /\ v[2] + side = b[2] + b[4]
            /\ v[1] <= 2 * b[1] /\ 2 * b[3] <= v[1] + v[3]
            /\ v[2] <= 2 * b[2] /\ 2 * b[4] <= v[2] + v[4]
            /\ svg.doc.elems = CircleExample => v = <<20, 20, 160, 160>>

\* The circle example was rendered at 128 pixels.
C8_Witness ==
    /\ svg.doc.elems = CircleExample
    /\ modified # {}
    /\ The(modified).width = 128
    /\ Len(files) = 2

\* ---- C9
NoPoints(doc) == AllPathPoints(doc.elems, 1) \o AllShapePoints(doc.elems, 1) = <<>>

\* C9: for a document without points the box returned is the region of the
\* declared viewBox "vx vy vw vh", (vx, vy, vx+vw, vy+vh), and (0, 0, 100,
\* 100) when there is no viewBox.
C9_FallbackIsViewBoxRegion ==
    (bounds # {} /\ NoPoints(svg.doc)) =>
        IF svg.doc.viewBox = {} THEN The(bounds) = <<0, 0, 100, 100>>
        ELSE Len(The(svg.doc.viewBox)) = 4 =>
                LET vb == The(svg.doc.viewBox)
                IN  The(bounds) = <<vb[1], vb[2], vb[1] + vb[3], vb[2] + vb[4]>>

\* ---- C10
\* C10, in every state: the files written are those of a prefix of 32, 128,
\* 256 in that order, and so are the sizes attempted; a size is attempted
\* only when every size before it was written completely; a failure ends
\* main; a content box of size zero and a missing favicon.svg leave no file
\* and no attempt; the success message is printed only with all three files
\* written.
C10_State ==
    /\ Len(files) <= 3
    /\ \A i \in 1..Len(files) : files[i].name = <<32, 128, 256>>[i]
    /\ Len(Renderings) <= 3
    /\ \A i \in 1..Len(Renderings) : Renderings[i].size = <<32, 128, 256>>[i]
    /\ Len(files) <= Len(Renderings)
    /\ \A i \in 1..Len(Renderings) : \A j \in 1..(i - 1) : j <= Len(files) /\ files[j].complete
    /\ f_raised # "" => f_pc \in {"done", "escaped"}
    /\ (dims # {} /\ The(dims)[2] = 0 /\ f_pc # "dims") =>
            (f_raised = "ZeroDivisionError" /\ files = <<>> /\ Renderings = <<>>)
    /\ ~ svg.exists => (files = <<>> /\ Renderings = <<>> /\ bounds = {} /\ f_pc \in {"start", "done"})
    /\ Msg("All favicon sizes generated successfully", 0) \in Range(printed) =>
            (Len(files) = 3 /\ \A i \in 1..3 : files[i].complete)

\* C10, in every step: a file once written stays in place, and once main
\* has ended, by a failure or not, nothing more is written or attempted.
C10_Step ==
    /\ Len(files') >= Len(files)
    /\ \A i \in 1..Len(files) : files'[i] = files[i]
    /\ f_pc \in {"done", "escaped"} => (files' = files /\ printed' = printed)

\* C10: PNG files are written in the order 32, 128, 256 and stop at the
\* first failure.
C10_WrittenInOrderUntilFailure == [] C10_State /\ [][C10_Step]_vars

\* The third size failed after the first two were written.
C10_Witness ==
    /\ f_pc = "done"
    /\ f_raised = "RasterError"
    /\ Len(files) = 2
    /\ Len(Renderings) = 3

=============================================================================
